---- MODULE Spec2Model ----
(***************************************************************************)
(* Model of 03_Books_Library_Restyle/parse_tululu_category.py: the crawl   *)
(* of the category pages, the extraction of each book page, the download   *)
(* of the text and the image, and the single write of description.json.    *)
(* Text is a sequence of one-character strings.  An HTTP response is a     *)
(* record [err, status, ...]; err = TRUE stands for requests.get raising   *)
(* (ConnectionError, Timeout).                                             *)
(***************************************************************************)
EXTENDS Integers, Sequences, FiniteSets, TLC

\* ------------------------------------------------------------- bounds
\* --start_page, --end_page and the last page number of the site are 1..MaxPage
MaxPage == 3
\* calls of the Downloader in the specification SpecDownloads
MaxCalls == 3

\* ---------------------------------------------------------- constants
MAX_FILENAME_LENGHT == 50
FOLDER_PATH == <<"b", "o", "o", "k", "s">>
IMAGES_PATH == <<"i", "m", "a", "g", "e", "s">>
\* --dest_folder, at its default
dest_folder == <<".">>

\* ------------------------------------------------------------- text
Min(a, b) == IF a < b THEN a ELSE b

Rep(c, n) == [i \in 1..n |-> c]

\* s[i:] and s[:n] of Python
From(s, i) == IF i > Len(s) THEN <<>> ELSE SubSeq(s, i, Len(s))
Take(s, n) == IF n <= 0 THEN <<>> ELSE SubSeq(s, 1, Min(n, Len(s)))

\* str.split('::'): the parts between the occurrences of "::", left to right
RECURSIVE SplitFrom(_, _, _)
SplitFrom(s, i, cur) ==
    IF i > Len(s) THEN <<cur>>
    ELSE IF i < Len(s) /\ s[i] = ":" /\ s[i + 1] = ":"
         THEN <<cur>> \o SplitFrom(s, i + 2, <<>>)
         ELSE SplitFrom(s, i + 1, Append(cur, s[i]))
split(s) == SplitFrom(s, 1, <<>>)

\* str.strip
RECURSIVE lstrip(_)
lstrip(s) == IF s # <<>> /\ s[1] = " " THEN lstrip(Tail(s)) ELSE s
RECURSIVE rstrip(_)
rstrip(s) ==
    IF s # <<>> /\ s[Len(s)] = " " THEN rstrip(SubSeq(s, 1, Len(s) - 1)) ELSE s
strip(s) == rstrip(lstrip(s))

\* src.split('/')[-1]
RECURSIVE LastSegment(_)
LastSegment(s) ==
    IF \E i \in 1..Len(s) : s[i] = "/"
    THEN LastSegment(From(s, (CHOOSE i \in 1..Len(s) : s[i] = "/") + 1))
    ELSE s

\* pathvalidate.sanitize_filename: the characters no file name may hold are dropped
Unsafe == {"/", ":", "?", "*", "|", "<", ">"}
sanitize_filename(s) == SelectSeq(s, LAMBDA c : c \notin Unsafe)

\* os.path.splitext of a name without a directory part: the extension starts at
\* the last dot, unless only dots come before it
splitext(p) ==
    LET dots == {i \in 1..Len(p) : p[i] = "."}
    IN  IF dots = {} THEN <<p, <<>>>>
        ELSE LET d == CHOOSE i \in dots : \A j \in dots : j <= i
             IN  IF \E k \in 1..(d - 1) : p[k] # "."
                 THEN <<SubSeq(p, 1, d - 1), From(p, d)>>
                 ELSE <<p, <<>>>>

\* os.path.join of a folder and a name
join(folder, name) == folder \o <<"/">> \o name

txt_path == join(dest_folder, FOLDER_PATH)
img_path == join(dest_folder, IMAGES_PATH)

\* ----------------------------------------------------------- get_hash
\* hashlib md5 hexdigest, kept to its first two hex digits: a digest of fixed
\* width that differs for any two of the bodies the model serves
get_hash(obj) ==
    CASE obj = <<>> -> <<"d", "4">>
      [] obj = <<"x">> -> <<"9", "d">>
      [] obj = <<"y">> -> <<"4", "1">>
      [] obj = <<"e">> -> <<"e", "1">>

\* ------------------------------------------------------ raise_for_status
\* TRUE when an HTTPError is raised inside the try block: by
\* response.raise_for_status() for a 4xx/5xx status, or by the check of
\* status_code != 200
HTTPErrorRaised(response) ==
    \/ (response.status >= 400 /\ response.status < 600)
    \/ response.status # 200
\* the except clause names requests.HTTPError and requests.ConnectionError
ExceptClauseCatches == TRUE
\* TRUE when the error leaves raise_for_status and reaches the caller
raise_for_status(response) == HTTPErrorRaised(response) /\ ~ExceptClauseCatches

\* ------------------------------------------------------------ the site
Statuses == {200, 302, 404}

\* requests.get raised: no response
Transport(empty) == [err |-> TRUE, status |-> 0, body |-> empty]
Class(response) ==
    IF response.err THEN "error" ELSE IF response.status = 200 THEN "ok" ELSE "bad"

\* the category root: the page numbers its pagination control shows (.npage)
RootBodies == {[i \in 1..n |-> i] : n \in 0..MaxPage}
RootResponses ==
    {Transport(<<>>)} \cup [err : {FALSE}, status : Statuses, body : RootBodies]

\* category page p: the hrefs of its book-cover anchors, in document order
Listing(p) ==
    CASE p % 3 = 1 -> <<"b1", "b2">>
      [] p % 3 = 2 -> <<"b2">>
      [] OTHER -> <<>>
ListingResponses(p) ==
    {Transport(<<>>)} \cup [err : {FALSE}, status : Statuses, body : {Listing(p), <<>>}]

\* what the site holds for a book link: its title, its text, its cover image
Title(link) == IF link = "b1" THEN <<"a">> ELSE <<"c", "?">>
TxtOf(link) == IF link = "b1" THEN <<"x">> ELSE <<"y">>
ImgOf(link) == IF link = "b1" THEN <<"y">> ELSE <<"x">>

\* a book page: the text of h1 (select_one: no element or one), the number of
\* anchors '.d_book tr a', the src of the cover image, comments and genres
GoodBody(link) ==
    [h1 |-> << <<" ">> \o Title(link) \o <<" ", ":", ":", " ", "b", " ">> >>,
     anchors |-> 3,
     img |-> << <<"/", "i", "/", "x", ".", "j">> >>,
     comments |-> <<"c1", "c2">>, genres |-> <<"g1">>]
NoHeading(link) == [GoodBody(link) EXCEPT !.h1 = <<>>]
NoSeparator(link) == [GoodBody(link) EXCEPT !.h1 = << Title(link) \o <<":", "b">> >>]
TwoSeparators(link) ==
    [GoodBody(link) EXCEPT !.h1 = << Title(link) \o <<":", ":", "b", ":", ":", "c">> >>]
NoTxtLink(link) == [GoodBody(link) EXCEPT !.anchors = 2]
NoImage(link) == [GoodBody(link) EXCEPT !.img = <<>>]
BookBodies(link) ==
    {GoodBody(link), NoHeading(link), NoSeparator(link), TwoSeparators(link),
     NoTxtLink(link), NoImage(link)}
\* the body goes with any status: an error page may hold anything
BookResponses(link) ==
    {Transport(NoHeading(link))}
        \cup [err : {FALSE}, status : Statuses, body : BookBodies(link)]

\* a text or an image: the bytes served
FileResponses ==
    {Transport(<<>>),
     [err |-> FALSE, status |-> 200, body |-> <<"x">>],
     [err |-> FALSE, status |-> 200, body |-> <<"y">>],
     [err |-> FALSE, status |-> 404, body |-> <<"e">>],
     [err |-> FALSE, status |-> 302, body |-> <<>>]}
\* the responses to the fetch of a file the site holds as content
SiteFileResponses(content) ==
    {r \in FileResponses : r.status = 200 => r.body = content}

\* ------------------------------------------------------------- files
\* the destination directory: a set of [path, content], one per path
write(fs, path, content) ==
    {f \in fs : f.path # path} \cup {[path |-> path, content |-> content]}

\* -------------------------------------------------------- download_txt
TxtFileNamePlain(filename, book_hash) == filename \o <<".", "t", "x", "t">>
TxtFileName(filename, book_hash) ==
    filename \o <<"_">> \o book_hash \o <<".", "t", "x", "t">>

\* [raised, path, files]: raised = TRUE when an exception reaches the caller
download_txt(fs, response, filename, folder) ==
    LET name == Take(sanitize_filename(filename), MAX_FILENAME_LENGHT)
    IN  IF response.err \/ raise_for_status(response)
        THEN [raised |-> TRUE, path |-> <<>>, files |-> fs]
        ELSE LET book == response.body
                 path == join(folder, TxtFileName(name, get_hash(book)))
             IN  [raised |-> FALSE, path |-> path, files |-> write(fs, path, book)]

\* ------------------------------------------------------ download_image
ImgFileName(name, img_hash, extension) == name \o <<"_">> \o img_hash \o extension

download_image(fs, response, filename, folder) ==
    IF response.err \/ raise_for_status(response)
    THEN [raised |-> TRUE, path |-> <<>>, files |-> fs]
    ELSE LET img == response.body
             parts == splitext(filename)
             path == join(folder, ImgFileName(parts[1], get_hash(img), parts[2]))
         IN  [raised |-> FALSE, path |-> path, files |-> write(fs, path, img)]

\* ------------------------------------------------------ parse_book_info
\* soup.select('.d_book tr a')[-3]: an IndexError with fewer than three anchors
book_txt_url_optional(soup) == TRUE
book_txt_url_found(soup) == soup.anchors >= 3

\* [raised, info]: raised = TRUE for requests.get raising, no h1 (AttributeError),
\* a heading that does not split in two (ValueError), fewer than three anchors
\* (IndexError), no cover image (TypeError)
parse_book_info(response) ==
    LET soup == response.body
        parts == IF soup.h1 = <<>> THEN <<>> ELSE split(soup.h1[1])
    IN  IF \/ response.err
           \/ raise_for_status(response)
           \/ soup.h1 = <<>>
           \/ Len(parts) # 2
           \/ ~book_txt_url_found(soup)
           \/ soup.img = <<>>
        THEN [raised |-> TRUE, info |-> <<>>]
        ELSE [raised |-> FALSE,
              info |-> << [title |-> strip(parts[1]),
                           author |-> strip(parts[2]),
                           book_image_name |-> LastSegment(soup.img[1]),
                           comments |-> soup.comments,
                           genres |-> soup.genres] >>]

\* ------------------------------------------------------------- state
VARIABLES
    pc,             \* the place main has reached
    start_page,     \* args.start_page
    args_end_page,  \* args.end_page
    end_page,       \* end_page of main, clamped once total_pages is known
    skip_txt,       \* args.skip_txt
    skip_imgs,      \* args.skip_imgs
    total_pages,    \* the result of get_total_pages, 0 before
    page_number,    \* get_book_links: the next page of the range
    books,          \* get_book_links: the anchors of the current page not yet yielded
    book_link,      \* main: the link the loop body works on
    book_info,      \* main: no element, or the result of parse_book_info
    description,    \* main: no element, or the description under construction
    books_info,     \* main: the descriptions appended so far
    files,          \* the destination directory
    manifest,       \* description.json: no element, or the list written
    fetched,        \* history: the category pages fetched, [page, links]
    yielded,        \* history: the links get_book_links has yielded
    cur,            \* history: what happened to the current link so far
    log,            \* history: one record per link the loop body has finished
    downloads,      \* history: the calls of download_txt and download_image
    manifest_writes,\* history: the number of writes of description.json
    calls           \* SpecDownloads: the number of calls made

vars ==
    <<pc, start_page, args_end_page, end_page, skip_txt, skip_imgs, total_pages,
      page_number, books, book_link, book_info, description, books_info, files,
      manifest, fetched, yielded, cur, log, downloads, manifest_writes, calls>>

argvars == <<start_page, args_end_page, skip_txt, skip_imgs>>
walkervars == <<page_number, books, fetched, yielded>>
bookvars == <<book_link, book_info, description, cur>>

NoCur ==
    [page |-> "none", served |-> NoHeading(""), txt |-> "none", img |-> "none",
     nwrites |-> 0]

Blank ==
    /\ end_page = args_end_page
    /\ total_pages = 0
    /\ page_number = 0
    /\ books = <<>>
    /\ book_link = ""
    /\ book_info = <<>>
    /\ description = <<>>
    /\ books_info = <<>>
    /\ files = {}
    /\ manifest = <<>>
    /\ fetched = <<>>
    /\ yielded = <<>>
    /\ cur = NoCur
    /\ log = <<>>
    /\ downloads = {}
    /\ manifest_writes = 0
    /\ calls = 0

\* main after parse_args
Init ==
    /\ pc = "get_total_pages"
    /\ start_page \in 1..MaxPage
    /\ args_end_page \in 1..MaxPage
    /\ skip_txt \in BOOLEAN
    /\ skip_imgs \in BOOLEAN
    /\ Blank

\* ------------------------------------------------------------- main
\* total_pages = get_total_pages(); end_page = min(end_page, total_pages).
\* get_total_pages is called outside any try: requests.get raising, or a page
\* without .npage (IndexError), ends the run
GetTotalPages ==
    /\ pc = "get_total_pages"
    /\ \E response \in RootResponses :
        IF response.err \/ raise_for_status(response) \/ response.body = <<>>
        THEN /\ pc' = "crashed"
             /\ UNCHANGED <<total_pages, end_page>>
        ELSE /\ total_pages' = response.body[Len(response.body)]
             /\ end_page' = Min(args_end_page, total_pages')
             /\ pc' = "check_range"
    /\ UNCHANGED <<argvars, walkervars, bookvars, books_info, files, manifest, log, downloads,
                   manifest_writes, calls>>

\* if end_page < start_page
RangeErrorOffByOne == end_page + 1 < start_page
RangeError == end_page < start_page

\* the check of the range; then makedirs and book_links = get_book_links(...)
CheckRange ==
    /\ pc = "check_range"
    /\ IF RangeError
       THEN /\ pc' = "failed"
            /\ UNCHANGED page_number
       ELSE /\ pc' = "walk"
            /\ page_number' = start_page
    /\ UNCHANGED <<argvars, end_page, total_pages, books, fetched, yielded, bookvars,
                   books_info, files, manifest, log, downloads, manifest_writes, calls>>

\* ---------------------------------------------------- get_book_links
range_inclusive(a, b) == a..b
range(a, b) == a..(b - 1)

\* one turn of "for page_number in range(start_page, end_page)": the page is
\* fetched and its anchors selected. The generator runs inside the for statement
\* of main, outside the try: requests.get raising ends the run
FetchPage ==
    /\ pc = "walk"
    /\ books = <<>>
    /\ page_number \in range(start_page, end_page)
    /\ \E response \in ListingResponses(page_number) :
        IF response.err \/ raise_for_status(response)
        THEN /\ pc' = "crashed"
             /\ UNCHANGED walkervars
        ELSE /\ pc' = "walk"
             /\ books' = response.body
             /\ fetched' = Append(fetched, [page |-> page_number, links |-> response.body])
             /\ page_number' = page_number + 1
             /\ UNCHANGED yielded
    /\ UNCHANGED <<argvars, end_page, total_pages, bookvars, books_info, files, manifest,
                   log, downloads, manifest_writes, calls>>

\* yield urljoin(url, book['href']): the loop body of main starts on the link
YieldLink ==
    /\ pc = "walk"
    /\ books # <<>>
    /\ book_link' = Head(books)
    /\ books' = Tail(books)
    /\ yielded' = Append(yielded, Head(books))
    /\ pc' = "parse"
    /\ UNCHANGED <<argvars, end_page, total_pages, page_number, fetched, book_info,
                   description, cur, books_info, files, manifest, log, downloads,
                   manifest_writes, calls>>

\* the range is used up: the for statement of main ends
EndOfLinks ==
    /\ pc = "walk"
    /\ books = <<>>
    /\ page_number \notin range(start_page, end_page)
    /\ pc' = "dump"
    /\ UNCHANGED <<argvars, end_page, total_pages, walkervars, bookvars, books_info, files,
                   manifest, log, downloads, manifest_writes, calls>>

\* ------------------------------------------------- the loop body of main
\* the link is finished: the next turn of the for statement
Finished(rec) ==
    /\ log' = Append(log, rec)
    /\ book_link' = ""
    /\ book_info' = <<>>
    /\ description' = <<>>
    /\ cur' = NoCur
    /\ pc' = "walk"

Record(c, extracted, idx) ==
    [link |-> book_link, page |-> c.page, served |-> c.served,
     extracted |-> extracted, txt |-> c.txt,
     img |-> c.img, nwrites |-> c.nwrites, idx |-> idx]

\* the history of one call of the Downloader: what was asked, what the fetch
\* gave, what came back and what the directory holds after it
Call(kind, filename, response, before, res) ==
    [kind |-> kind, filename |-> filename, class |-> Class(response),
     content |-> response.body, returned |-> ~res.raised, path |-> res.path,
     changed |-> res.files # before,
     stored |-> [path |-> res.path, content |-> response.body] \in res.files]

\* book_info = parse_book_info(book_link), and the description built from it;
\* any exception is caught by "except Exception" and the loop goes on
ParseBookInfo ==
    /\ pc = "parse"
    /\ \E response \in BookResponses(book_link) :
        LET res == parse_book_info(response)
            c == [cur EXCEPT !.page = Class(response), !.served = response.body]
        IN  IF res.raised
            THEN /\ Finished(Record(c, FALSE, 0))
            ELSE /\ book_info' = res.info
                 /\ description' =
                        << [title |-> res.info[1].title,
                            author |-> res.info[1].author,
                            comments |-> res.info[1].comments,
                            genres |-> res.info[1].genres] >>
                 /\ cur' = c
                 /\ pc' = "txt"
                 /\ UNCHANGED <<book_link, log>>
    /\ UNCHANGED <<argvars, end_page, total_pages, walkervars, books_info, files,
                   manifest, downloads, manifest_writes, calls>>

\* if not args.skip_txt / if not args.skip_imgs
WantsAll == TRUE
WantsTxt == ~skip_txt
WantsImgs == ~skip_imgs

\* book_path_returned = download_txt(...); description['book_src'] = ...
DownloadTxt ==
    /\ pc = "txt"
    /\ WantsTxt
    /\ \E response \in SiteFileResponses(TxtOf(book_link)) :
        LET res == download_txt(files, response, book_info[1].title, txt_path)
            c == [cur EXCEPT !.txt = Class(response),
                             !.nwrites = IF res.raised THEN @ ELSE @ + 1]
        IN  /\ files' = res.files
            /\ downloads' =
                   downloads \cup {Call("txt", book_info[1].title, response, files, res)}
            /\ IF res.raised
               THEN Finished(Record(c, TRUE, 0))
               ELSE /\ description' =
                           << description[1] @@ [book_src |-> res.path] >>
                    /\ cur' = c
                    /\ pc' = "img"
                    /\ UNCHANGED <<book_link, book_info, log>>
    /\ UNCHANGED <<argvars, end_page, total_pages, walkervars, books_info, manifest,
                   manifest_writes, calls>>

SkipTxt ==
    /\ pc = "txt"
    /\ ~WantsTxt
    /\ pc' = "img"
    /\ UNCHANGED <<argvars, end_page, total_pages, walkervars, bookvars, books_info,
                   files, manifest, log, downloads, manifest_writes, calls>>

\* img_path_returned = download_image(...); description['img_src'] = ...
DownloadImage ==
    /\ pc = "img"
    /\ WantsImgs
    /\ \E response \in SiteFileResponses(ImgOf(book_link)) :
        LET res == download_image(files, response, book_info[1].book_image_name,
                                  img_path)
            c == [cur EXCEPT !.img = Class(response),
                             !.nwrites = IF res.raised THEN @ ELSE @ + 1]
        IN  /\ files' = res.files
            /\ downloads' =
                   downloads \cup
                       {Call("img", book_info[1].book_image_name, response, files, res)}
            /\ IF res.raised
               THEN Finished(Record(c, TRUE, 0))
               ELSE /\ description' =
                           << description[1] @@ [img_src |-> res.path] >>
                    /\ cur' = c
                    /\ pc' = "append"
                    /\ UNCHANGED <<book_link, book_info, log>>
    /\ UNCHANGED <<argvars, end_page, total_pages, walkervars, books_info, manifest,
                   manifest_writes, calls>>

SkipImage ==
    /\ pc = "img"
    /\ ~WantsImgs
    /\ pc' = "append"
    /\ UNCHANGED <<argvars, end_page, total_pages, walkervars, bookvars, books_info,
                   files, manifest, log, downloads, manifest_writes, calls>>

\* books_info.append(description)
AppendFirst(list, d) == <<d>> \o list
AppendDescription(list, d) == Append(list, d)

\* the same with json.dump inside the for statement
AppendBookAndDump ==
    /\ pc = "append"
    /\ books_info' = AppendDescription(books_info, description[1])
    /\ Finished(Record(cur, TRUE, Len(books_info) + 1))
    /\ manifest' = <<books_info'>>
    /\ manifest_writes' = manifest_writes + 1
    /\ UNCHANGED <<argvars, end_page, total_pages, walkervars, files, downloads, calls>>

AppendBook ==
    /\ pc = "append"
    /\ books_info' = AppendDescription(books_info, description[1])
    /\ Finished(Record(cur, TRUE, Len(books_info) + 1))
    /\ UNCHANGED <<argvars, end_page, total_pages, walkervars, files, manifest,
                   downloads, manifest_writes, calls>>

\* json.dump(books_info, file) after the for statement, then the last log line
DumpManifest ==
    /\ pc = "dump"
    /\ manifest' = <<books_info>>
    /\ manifest_writes' = manifest_writes + 1
    /\ pc' = "done"
    /\ UNCHANGED <<argvars, end_page, total_pages, walkervars, bookvars, books_info,
                   files, log, downloads, calls>>

Next ==
    \/ GetTotalPages
    \/ CheckRange
    \/ FetchPage
    \/ YieldLink
    \/ EndOfLinks
    \/ ParseBookInfo
    \/ DownloadTxt
    \/ SkipTxt
    \/ DownloadImage
    \/ SkipImage
    \/ AppendBook
    \/ DumpManifest

Spec == Init /\ [][Next]_vars

\* ------------------------------------------- the Downloader on its own
\* download_txt and download_image called in any order, with any suggested name
\* and any response, each on the folder main passes to it
LongName == Rep("a", MAX_FILENAME_LENGHT)
TxtNames ==
    {<<"a">>, <<"a", "/">>, <<"?", "a">>, LongName \o <<"b">>, LongName \o <<"c">>}
ImgNames == {<<"x", ".", "j">>, <<"x", "?", ".", "j">>, <<"x">>, <<".", "x">>}

InitDownloads ==
    /\ pc = "downloader"
    /\ start_page = 1
    /\ args_end_page = 1
    /\ skip_txt = FALSE
    /\ skip_imgs = FALSE
    /\ Blank

CallDownloadTxt ==
    /\ pc = "downloader"
    /\ calls < MaxCalls
    /\ \E filename \in TxtNames, response \in FileResponses :
        LET res == download_txt(files, response, filename, txt_path)
        IN  /\ files' = res.files
            /\ downloads' = downloads \cup {Call("txt", filename, response, files, res)}
    /\ calls' = calls + 1
    /\ UNCHANGED <<pc, argvars, end_page, total_pages, walkervars, bookvars,
                   books_info, manifest, log, manifest_writes>>

CallDownloadImage ==
    /\ pc = "downloader"
    /\ calls < MaxCalls
    /\ \E filename \in ImgNames, response \in FileResponses :
        LET res == download_image(files, response, filename, img_path)
        IN  /\ files' = res.files
            /\ downloads' = downloads \cup {Call("img", filename, response, files, res)}
    /\ calls' = calls + 1
    /\ UNCHANGED <<pc, argvars, end_page, total_pages, walkervars, bookvars,
                   books_info, manifest, log, manifest_writes>>

NextDownloads ==
    \/ CallDownloadTxt
    \/ CallDownloadImage

SpecDownloads == InitDownloads /\ [][NextDownloads]_vars

\* ------------------------------------------------------------ claims
Crawling == pc \in {"walk", "parse", "txt", "img", "append"}
CrawlStarted == page_number # 0
ManifestWritten == manifest # <<>>
Entries == IF ManifestWritten THEN manifest[1] ELSE <<>>
HasEntry(rec) == rec.idx \in 1..Len(Entries)
Non200(rec) == rec.page = "bad" \/ rec.txt = "bad" \/ rec.img = "bad"
All200(rec) ==
    rec.page = "ok" /\ rec.txt \in {"ok", "none"} /\ rec.img \in {"ok", "none"}
DownloadRaised(rec) == rec.txt = "error" \/ rec.img = "error"

IsPrefix(p, s) == Len(p) <= Len(s) /\ SubSeq(s, 1, Len(p)) = p
Sanitized(filename) == Take(sanitize_filename(filename), MAX_FILENAME_LENGHT)
AllDescriptions == description \o books_info \o Entries
HeadingAbsent(body) == body.h1 = <<>>
NoSeparatorIn(body) == body.h1 # <<>> /\ Len(split(body.h1[1])) = 1
TxtLinkAbsent(body) == body.anchors < 3
ExtractionFails(rec) ==
    rec.page # "error"
        /\ (HeadingAbsent(rec.served) \/ NoSeparatorIn(rec.served)
                \/ TxtLinkAbsent(rec.served))

RECURSIVE Flatten(_)
Flatten(ss) == IF ss = <<>> THEN <<>> ELSE Head(ss) \o Flatten(Tail(ss))
LinksOf(pages) == Flatten([i \in 1..Len(pages) |-> pages[i].links])

\* C1: once the crawl loop has started, no failure of a fetch aborts the run:
\* the run never ends on an uncaught error after the range check has passed.
C1_CrawlNeverAborts == pc = "crashed" => ~CrawlStarted

\* C2: in the manifest written, a book one of whose fetches (book page, text,
\* image) returned a status other than 200 has no entry, and a book whose
\* fetches all returned 200 and whose extraction succeeded has one.
C2_Non200BookHasNoEntry ==
    ManifestWritten =>
        \A i \in 1..Len(log) :
            /\ Non200(log[i]) => ~HasEntry(log[i])
            /\ (All200(log[i]) /\ log[i].extracted) => HasEntry(log[i])

\* C3: a call of the Downloader whose fetch returned 200 returns a path and the
\* file at that path holds the bytes served; a call whose fetch failed (another
\* status, or a transport error) returns no path and leaves the folder as it was.
C3_DownloaderWritesOnlyOnSuccess ==
    \A d \in downloads :
        IF d.class = "ok"
        THEN d.returned /\ d.stored
        ELSE ~d.returned /\ ~d.changed

\* C4: when min(end_page, total_pages) < start_page the run stops at the range
\* check with the range error: no category page of the range and no book page
\* has been fetched, no file and no manifest has been written.
C4_RangeErrorBeforeCrawl ==
    (total_pages # 0 /\ pc # "check_range"
        /\ Min(args_end_page, total_pages) < start_page) =>
        /\ pc = "failed"
        /\ fetched = <<>>
        /\ yielded = <<>>
        /\ log = <<>>
        /\ downloads = {}
        /\ files = {}
        /\ ~ManifestWritten
        /\ manifest_writes = 0

C4_Witness ==
    /\ pc = "failed"
    /\ args_end_page >= start_page
    /\ total_pages < start_page

\* C5: the Category Walker fetches the pages start_page, start_page + 1, ... in
\* order and never page min(end_page, total_pages) or a later one; the links
\* yielded are, in order and with duplicates kept, the links of the pages
\* fetched; when the walker is exhausted the pages fetched are exactly
\* start_page .. min(end_page, total_pages) - 1.
C5_WalkerYieldsPagesInOrder ==
    CrawlStarted =>
        /\ end_page = Min(args_end_page, total_pages)
        /\ \A i \in 1..Len(fetched) :
            /\ fetched[i].page = start_page + i - 1
            /\ fetched[i].page < end_page
        /\ yielded \o books = LinksOf(fetched)
        /\ pc \in {"dump", "done"} =>
            /\ Len(fetched) = end_page - start_page
            /\ yielded = LinksOf(fetched)

C5_Witness ==
    /\ pc = "dump"
    /\ start_page = 1
    /\ end_page = 3
    /\ yielded = Listing(1) \o Listing(2)
    /\ yielded = <<"b1", "b2", "b2">>

\* C6 as stated: the manifest holds exactly one entry for each link whose
\* extraction succeeded, none for any other link, in the order of discovery.
C6_EntryPerExtractedLink ==
    ManifestWritten =>
        LET extracted == SelectSeq(log, LAMBDA rec : rec.extracted)
        IN  /\ Len(Entries) = Len(extracted)
            /\ \A i \in 1..Len(extracted) : extracted[i].idx = i
            /\ \A i \in 1..Len(log) : ~log[i].extracted => log[i].idx = 0

\* C6 amended: the manifest is the list accumulated, with exactly one entry for
\* each link whose extraction succeeded and whose downloads (those not skipped)
\* raised no error, none for any other link, in the order in which the links
\* were yielded; each entry carries the title of its link's page.
C6_EntryPerCompletedLink ==
    ManifestWritten =>
        LET Kept(rec) == rec.extracted /\ ~DownloadRaised(rec)
            kept == SelectSeq(log, Kept)
        IN  /\ manifest[1] = books_info
            /\ [i \in 1..Len(log) |-> log[i].link] = yielded
            /\ Len(Entries) = Len(kept)
            /\ \A i \in 1..Len(kept) :
                /\ kept[i].idx = i
                /\ Entries[i].title = Title(kept[i].link)
            /\ \A i \in 1..Len(log) : ~Kept(log[i]) => log[i].idx = 0

C6_Witness ==
    /\ ManifestWritten
    /\ Len(log) = 3
    /\ log[1].extracted /\ log[1].txt = "error"
    /\ ~log[2].extracted
    /\ log[3].idx = 1

\* C7: description.json is written at most once, and only when the for statement
\* has ended with every link yielded finished; while the crawl runs, and in a
\* run that ended during the crawl, there is no manifest, whatever files exist.
C7_ManifestOnceAtTheEnd ==
    /\ manifest_writes <= 1
    /\ ManifestWritten <=> manifest_writes = 1
    /\ (Crawling \/ pc = "crashed") => ~ManifestWritten
    /\ ManifestWritten =>
        /\ pc = "done"
        /\ books = <<>>
        /\ page_number \notin start_page..(end_page - 1)
        /\ Len(log) = Len(yielded)
        /\ manifest[1] = books_info

C7_Witness ==
    /\ pc = "crashed"
    /\ CrawlStarted
    /\ files # {}
    /\ books_info # <<>>
    /\ ~ManifestWritten

\* C8: under the hash-suffixed names, for the downloads that returned a path:
\* the same suggested name and content give the same path; different contents
\* under suggested names that sanitize to the same name give different paths;
\* and every path returned still holds the bytes of its download, so that no
\* download has overwritten a file with other content.
C8_HashSuffixedNames ==
    LET done == {d \in downloads : d.returned}
    IN  /\ \A d1, d2 \in done :
            /\ (d1.kind = d2.kind /\ d1.filename = d2.filename
                    /\ d1.content = d2.content) => d1.path = d2.path
            /\ (d1.kind = d2.kind /\ Sanitized(d1.filename) = Sanitized(d2.filename)
                    /\ d1.content # d2.content) => d1.path # d2.path
        /\ \A d \in done : [path |-> d.path, content |-> d.content] \in files
        /\ \A f1, f2 \in files : f1.path = f2.path => f1 = f2

C8_Witness ==
    /\ calls = 3
    /\ \E d \in downloads : d.kind = "txt" /\ d.returned /\ ~d.changed
    /\ \E d1, d2 \in downloads :
        /\ d1.kind = "txt" /\ d2.kind = "txt"
        /\ d1.returned /\ d2.returned
        /\ d1.filename # d2.filename
        /\ Len(d1.filename) > MAX_FILENAME_LENGHT
        /\ Sanitized(d1.filename) = Sanitized(d2.filename)
        /\ d1.content # d2.content
    /\ Cardinality(files) = 2

\* C9: with skip_imgs set download_image is never called, no file lies under the
\* images folder and no description has img_src; with skip_txt set the same for
\* download_txt, the books folder and book_src. Every description has title,
\* author, comments and genres, and the path of each kind that is not skipped.
C9_SkipFlags ==
    /\ skip_imgs =>
        /\ \A d \in downloads : d.kind # "img"
        /\ \A f \in files : ~IsPrefix(img_path, f.path)
        /\ \A i \in 1..Len(AllDescriptions) : "img_src" \notin DOMAIN AllDescriptions[i]
    /\ skip_txt =>
        /\ \A d \in downloads : d.kind # "txt"
        /\ \A f \in files : ~IsPrefix(txt_path, f.path)
        /\ \A i \in 1..Len(AllDescriptions) : "book_src" \notin DOMAIN AllDescriptions[i]
    /\ \A i \in 1..Len(books_info) :
        /\ {"title", "author", "comments", "genres"} \subseteq DOMAIN books_info[i]
        /\ ~skip_txt =>
            /\ "book_src" \in DOMAIN books_info[i]
            /\ IsPrefix(txt_path, books_info[i].book_src)
        /\ ~skip_imgs =>
            /\ "img_src" \in DOMAIN books_info[i]
            /\ IsPrefix(img_path, books_info[i].img_src)

C9_Witness ==
    /\ pc = "done"
    /\ skip_imgs
    /\ ~skip_txt
    /\ Len(Entries) = 2
    /\ Cardinality(files) = 2

\* C10: a link whose page has no heading, a heading without "::" or no
\* text-download link (fewer than three anchors) is finished with no call of the Downloader, no file
\* written and no entry; the Downloader runs only with the book's extraction done.
C10_NoDownloadWithoutExtraction ==
    /\ \A i \in 1..Len(log) :
        (ExtractionFails(log[i]) \/ ~log[i].extracted) =>
            /\ ~log[i].extracted
            /\ log[i].txt = "none"
            /\ log[i].img = "none"
            /\ log[i].nwrites = 0
            /\ log[i].idx = 0
    /\ pc \in {"txt", "img", "append"} =>
        /\ book_info # <<>>
        /\ ~ExtractionFails(Record(cur, TRUE, 0))

C10_Witness ==
    /\ Len(log) = 3
    /\ log[1].idx = 1
    /\ log[2].page = "ok" /\ NoSeparatorIn(log[2].served)
    /\ log[3].page = "ok" /\ TxtLinkAbsent(log[3].served)
    /\ Cardinality(files) = 2
====
